---- MODULE Spec2Model ----
(***************************************************************************)
(* Model of water_alerts.py: one pass of main() fetches the feed, extracts *)
(* the first entry that mentions the configured area, decides with         *)
(* should_send_notification() against last_notification.json, sends the    *)
(* Pushover notification and saves the ledger file.                        *)
(*                                                                         *)
(* Python values are modelled as follows.                                  *)
(*   str            a sequence of one-character strings                    *)
(*   None (result)  the empty sequence <<>>, a value d the sequence <<d>>  *)
(*   dict           a function from keys to values, {} has empty domain    *)
(*   optional attr  a set with zero or one element                         *)
(*   a file         [exists, text, closed]: text is the sequence of        *)
(*                  key/value chunks json.dump has written so far, closed  *)
(*                  is TRUE once the closing brace is written and flushed  *)
(***************************************************************************)
EXTENDS Integers, Sequences, FiniteSets, TLC

\* ---------------------------------------------------------------- bounds

\* The clock advances in half-minute steps, at most MaxTicks times.
MaxTicks == 4

\* min_interval_minutes is drawn from 0..MaxIntervalMinutes.
MaxIntervalMinutes == 2

\* Feeds hold at most MaxFeedLen entries.
MaxFeedLen == 3

\* ------------------------------------------------------ program constants

\* should_send_notification: min_interval_minutes * 60
SecondsPerMinute == 60

\* last_notification.get('timestamp', 0)
DefaultTimestamp == 0

TickSeconds == SecondsPerMinute \div 2

Procs == {1, 2}

\* ----------------------------------------------------------------- strings

\* str.lower() on one character
LowerChar(c) ==
    CASE c = "A" -> "a"
      [] c = "B" -> "b"
      [] OTHER -> c

\* str.lower()
Lower(s) == [i \in 1..Len(s) |-> LowerChar(s[i])]

\* the Python test  sub in s
Contains(sub, s) ==
    \E i \in 1..(Len(s) - Len(sub) + 1) : SubSeq(s, i, i + Len(sub) - 1) = sub

\* A value that is not a str: calling .lower() on it raises AttributeError.
NonString == <<"<non-str>">>

IsStr(v) == v # NonString

\* config['RSS']['area']
area == <<"a", "B">>

\* -------------------------------------------------------------- the feed

\* An optional attribute: absent or one value.
Absent == {}

Present(v) == {v}

\* hasattr(entry, name)
hasattr(attr) == attr # Absent

\* getattr(entry, name, default)
getattr(attr, default) == IF attr = Absent THEN default ELSE CHOOSE v \in attr : TRUE

\* One feedparser entry: its optional attributes and the value of str(entry).
Entry(summary, description, id, title, str) ==
    [summary |-> summary, description |-> description, id |-> id, title |-> title,
     str |-> str]

\* The entries feeds are made of.  "Ab", "xab" and "xAB" contain the area,
\* "ba" and "x" do not; a NonString summary is a malformed entry.
Entries ==
    { Entry(Present(<<"A", "b">>), Absent, Present("d1"), Present("T"), <<"x">>),
      Entry(Present(<<"A", "b">>), Absent, Absent, Absent, <<"x">>),
      Entry(Absent, Present(<<"x", "a", "b">>), Present("d1"), Present("T"), <<"x">>),
      Entry(Absent, Present(<<"x", "a", "b">>), Absent, Absent, <<"x">>),
      Entry(Absent, Absent, Present("d1"), Absent, <<"x", "A", "B">>),
      Entry(Present(<<"b", "a">>), Present(<<"x", "a", "b">>), Present("d1"), Present("T"),
            <<"x", "A", "B">>),
      Entry(Absent, Present(<<"b", "a">>), Absent, Present("T"), <<"x", "A", "B">>),
      Entry(Present(NonString), Present(<<"x", "a", "b">>), Present("d1"), Present("T"),
            <<"x", "A", "B">>) }

RECURSIVE SeqsUpTo(_, _)
SeqsUpTo(S, n) ==
    IF n = 0 THEN {<<>>}
    ELSE LET shorter == SeqsUpTo(S, n - 1)
         IN  shorter \cup {Append(s, e) : s \in {t \in shorter : Len(t) = n - 1}, e \in S}

Feeds == SeqsUpTo(Entries, MaxFeedLen)

\* Mutant: the description is looked for before the summary.
EntryDescription_DescriptionFirst(entry) ==
    IF hasattr(entry.description) THEN getattr(entry.description, <<>>)
    ELSE IF hasattr(entry.summary) THEN getattr(entry.summary, <<>>)
    ELSE entry.str

\* check_disruptions lines 55-61: the text that is tested for one entry.
EntryDescription(entry) ==
    IF hasattr(entry.summary) THEN getattr(entry.summary, <<>>)
    ELSE IF hasattr(entry.description) THEN getattr(entry.description, <<>>)
    ELSE entry.str

None == <<>>

\* Mutant: the scan does not return at the first match, a later match
\* replaces an earlier one.
RECURSIVE check_disruptions_LastMatch(_, _)
check_disruptions_LastMatch(entries, a) ==
    IF entries = <<>> THEN None
    ELSE LET entry == Head(entries)
             description == EntryDescription(entry)
             later == check_disruptions_LastMatch(Tail(entries), a)
         IN  IF later # None THEN later
             ELSE IF IsStr(description) /\ Contains(Lower(a), Lower(description))
             THEN << [id |-> getattr(entry.id, ""),
                      title |-> getattr(entry.title, ""),
                      description |-> description] >>
             ELSE None

\* Mutant: the try block is around the loop, so the first entry whose
\* processing raises ends the scan.
RECURSIVE check_disruptions_StopsAtError(_, _)
check_disruptions_StopsAtError(entries, a) ==
    IF entries = <<>> THEN None
    ELSE LET entry == Head(entries)
             description == EntryDescription(entry)
         IN  IF ~IsStr(description) THEN None
             ELSE IF Contains(Lower(a), Lower(description))
             THEN << [id |-> getattr(entry.id, ""),
                      title |-> getattr(entry.title, ""),
                      description |-> description] >>
             ELSE check_disruptions_StopsAtError(Tail(entries), a)

\* check_disruptions: the first entry whose text contains the area, as
\* <<dict>>, or None.  An entry whose processing raises is skipped.
RECURSIVE check_disruptions(_, _)
check_disruptions(entries, a) ==
    IF entries = <<>> THEN None
    ELSE LET entry == Head(entries)
             description == EntryDescription(entry)
         IN  IF ~IsStr(description)
             THEN check_disruptions(Tail(entries), a)
             ELSE IF Contains(Lower(a), Lower(description))
             THEN << [id |-> getattr(entry.id, ""),
                      title |-> getattr(entry.title, ""),
                      description |-> description] >>
             ELSE check_disruptions(Tail(entries), a)

\* What fetch_rss_feed followed by check_disruptions can hand to main: the
\* results on the empty feed and on the feeds of one entry.  A longer feed
\* gives the result of its first matching entry alone (FeedOutcomesCover).
FeedOutcomes == {check_disruptions(feed, area) : feed \in SeqsUpTo(Entries, 1)}

\* ------------------------------------------------------------- the ledger

EmptyDict == [k \in {} |-> 0]

\* dict.get(key, default)
Get(d, key, default) == IF key \in DOMAIN d THEN d[key] ELSE default

\* The order in which json.dump writes the keys of notification_data.
FieldOrder == <<"timestamp", "disruption_id", "description">>

AbsentFile == [exists |-> FALSE, text |-> <<>>, closed |-> FALSE]

\* What a position of the file reads as when a handle wrote behind it after
\* another handle truncated the file.
Hole(i) == [k |-> "<hole>", v |-> <<0, "", <<>>>>[i]]

HasHole(text) == \E i \in 1..Len(text) : text[i].k = "<hole>"

\* A handle writes chunk at position n of text.
WriteAt(text, n, chunk) ==
    [i \in 1..(IF Len(text) > n THEN Len(text) ELSE n) |->
        IF i = n THEN chunk ELSE IF i <= Len(text) THEN text[i] ELSE Hole(i)]

\* open('last_notification.json', 'w'): the file exists and is empty.
TruncatedFile == [exists |-> TRUE, text |-> <<>>, closed |-> FALSE]

\* json.dump followed by close, for a whole dict.
CompleteFile(d) ==
    [exists |-> TRUE,
     text |-> [i \in 1..Len(FieldOrder) |-> [k |-> FieldOrder[i], v |-> d[FieldOrder[i]]]],
     closed |-> TRUE]

\* json.load on a text that is a complete JSON object.
ParseJson(text) ==
    [k \in {text[i].k : i \in 1..Len(text)} |->
        text[CHOOSE i \in 1..Len(text) : text[i].k = k].v]

\* Mutant: every error of the load is caught, not only FileNotFoundError.
load_last_notification_CatchesAll(f) ==
    IF ~f.exists \/ ~f.closed \/ HasHole(f.text)
    THEN [raised |-> FALSE, value |-> EmptyDict]
    ELSE [raised |-> FALSE, value |-> ParseJson(f.text)]

\* load_last_notification: FileNotFoundError gives {}, any other error
\* (json.JSONDecodeError on an empty or partial text) propagates.
load_last_notification(f) ==
    IF ~f.exists THEN [raised |-> FALSE, value |-> EmptyDict]
    ELSE IF ~f.closed \/ HasHole(f.text) THEN [raised |-> TRUE, value |-> EmptyDict]
    ELSE [raised |-> FALSE, value |-> ParseJson(f.text)]

\* Stand-ins for the None that dict.get returns for a missing key.
NoneId == "<None>"
NoneText == NonString

\* Mutant: a changed id or description is looked at before the cooldown.
should_send_notification_NoveltyFirst(disruption, last_notification, current_time, min_interval_minutes) ==
    IF DOMAIN last_notification = {} THEN TRUE
    ELSE IF Get(disruption, "id", "") # Get(last_notification, "disruption_id", NoneId)
    THEN TRUE
    ELSE IF Get(disruption, "description", <<>>) # Get(last_notification, "description", NoneText)
    THEN TRUE
    ELSE FALSE

\* Mutant: the cooldown test (lines 115-119) is missing.
should_send_notification_NoCooldown(disruption, last_notification, current_time, min_interval_minutes) ==
    IF DOMAIN last_notification = {} THEN TRUE
    ELSE (Get(disruption, "id", "") # Get(last_notification, "disruption_id", NoneId))
         \/ (Get(disruption, "description", <<>>)
                 # Get(last_notification, "description", NoneText))

\* Mutant: the test for an empty ledger (lines 112-113) is missing.
should_send_notification_NoColdStart(disruption, last_notification, current_time, min_interval_minutes) ==
    IF current_time - Get(last_notification, "timestamp", DefaultTimestamp)
          < min_interval_minutes * SecondsPerMinute
    THEN FALSE
    ELSE (Get(disruption, "id", "") # Get(last_notification, "disruption_id", NoneId))
         \/ (Get(disruption, "description", <<>>)
                 # Get(last_notification, "description", NoneText))

\* Mutant: the id comparison (lines 121-125) is missing.
should_send_notification_NoIdCheck(disruption, last_notification, current_time, min_interval_minutes) ==
    IF DOMAIN last_notification = {} THEN TRUE
    ELSE IF current_time - Get(last_notification, "timestamp", DefaultTimestamp)
               < min_interval_minutes * SecondsPerMinute
    THEN FALSE
    ELSE Get(disruption, "description", <<>>) # Get(last_notification, "description", NoneText)

\* Mutant: the description comparison (lines 127-128) is missing.
should_send_notification_NoDescriptionCheck(disruption, last_notification, current_time, min_interval_minutes) ==
    IF DOMAIN last_notification = {} THEN TRUE
    ELSE IF current_time - Get(last_notification, "timestamp", DefaultTimestamp)
               < min_interval_minutes * SecondsPerMinute
    THEN FALSE
    ELSE Get(disruption, "id", "") # Get(last_notification, "disruption_id", NoneId)

\* Mutant: after the cooldown the answer is always True (line 130 returns True).
should_send_notification_SendsAfterCooldown(disruption, last_notification, current_time, min_interval_minutes) ==
    IF DOMAIN last_notification = {} THEN TRUE
    ELSE ~(current_time - Get(last_notification, "timestamp", DefaultTimestamp)
               < min_interval_minutes * SecondsPerMinute)

\* should_send_notification lines 112-130, on the loaded dict and the
\* value of time.time().
should_send_notification(disruption, last_notification, current_time, min_interval_minutes) ==
    IF DOMAIN last_notification = {} THEN TRUE
    ELSE LET time_since_last ==
                 current_time - Get(last_notification, "timestamp", DefaultTimestamp)
         IN  IF time_since_last < min_interval_minutes * SecondsPerMinute THEN FALSE
             ELSE IF Get(disruption, "id", "") # Get(last_notification, "disruption_id", NoneId)
             THEN TRUE
             ELSE IF Get(disruption, "description", <<>>)
                         # Get(last_notification, "description", NoneText)
             THEN TRUE
             ELSE FALSE

\* ------------------------------------------------------------------ state

VARIABLES
    file,                   \* last_notification.json
    now,                    \* time.time(), in seconds
    min_interval,           \* config['NOTIFICATIONS'] min_interval_minutes
    pc,                     \* where each pass of main() stands
    disruption,             \* main: the result of check_disruptions
    last_notification,      \* should_send_notification: the loaded dict
    current_time,           \* should_send_notification: time.time()
    decision,               \* what should_send_notification returned
    notification_data,      \* save_last_notification: the dict being written
    offset,                 \* save_last_notification: chunks written by the handle
    entries,                \* feed.entries of the feed under scan, when it is fixed
    outcome,                \* what the pass printed at its end
    failure,                \* the step whose exception main caught
    fileAtStart,            \* history: the file when the pass started
    lastSent,               \* history: <<time>> of the last delivered notification
    saveLost,               \* history: a save after a delivery did not complete
    lastFailed,             \* history: candidate of the last failed delivery
    stable,                 \* history: the candidate notified and found ever since
    wasSuppressed           \* history: a changed candidate was suppressed

vars ==
    <<file, now, min_interval, pc, disruption, last_notification, current_time,
      decision, notification_data, offset, entries, outcome, failure, fileAtStart,
      lastSent, saveLost, lastFailed, stable, wasSuppressed>>

local == <<disruption, last_notification, current_time, decision, notification_data, offset>>

\* What no step of a pass changes.
fixed == <<min_interval, entries>>

history == <<lastSent, saveLost, lastFailed, wasSuppressed>>

\* A process that has run no pass yet.
InitLocals ==
    /\ now = 0
    /\ min_interval \in 0..MaxIntervalMinutes
    /\ pc = [p \in Procs |-> "idle"]
    /\ disruption = [p \in Procs |-> None]
    /\ last_notification = [p \in Procs |-> EmptyDict]
    /\ current_time = [p \in Procs |-> 0]
    /\ decision = [p \in Procs |-> "-"]
    /\ notification_data = [p \in Procs |-> EmptyDict]
    /\ offset = [p \in Procs |-> 0]
    /\ outcome = [p \in Procs |-> "-"]
    /\ failure = [p \in Procs |-> "-"]
    /\ fileAtStart = [p \in Procs |-> AbsentFile]
    /\ lastSent = None
    /\ saveLost = FALSE
    /\ lastFailed = None
    /\ stable = None
    /\ wasSuppressed = FALSE

InitPass == file = AbsentFile /\ InitLocals

Init == InitPass /\ entries = <<>>

\* The except clause of main (lines 170-173): the pass ends in error.
Raise(p, step) ==
    /\ pc' = [pc EXCEPT ![p] = "done"]
    /\ outcome' = [outcome EXCEPT ![p] = "error"]
    /\ failure' = [failure EXCEPT ![p] = step]
    /\ stable' = None

\* A pass ends with one of the three messages main prints.
Report(p, what) ==
    /\ pc' = [pc EXCEPT ![p] = "done"]
    /\ outcome' = [outcome EXCEPT ![p] = what]
    /\ UNCHANGED failure

Goto(p, where) ==
    /\ pc' = [pc EXCEPT ![p] = where]
    /\ UNCHANGED <<outcome, failure>>

\* time.time() moves forward between any two steps.
Tick ==
    /\ now < MaxTicks * TickSeconds
    /\ now' = now + TickSeconds
    /\ UNCHANGED <<file, fixed, pc, local, outcome, failure, fileAtStart, history, stable>>

\* main lines 134-152: a pass starts and the configuration loads.
Start(p) ==
    /\ pc[p] = "idle"
    /\ fileAtStart' = [fileAtStart EXCEPT ![p] = file]
    /\ Goto(p, "fetch")
    /\ UNCHANGED <<file, now, fixed, local, history, stable>>

\* main line 137: load_config raises FileNotFoundError.
ConfigFail(p) ==
    /\ pc[p] = "idle"
    /\ fileAtStart' = [fileAtStart EXCEPT ![p] = file]
    /\ Raise(p, "config")
    /\ UNCHANGED <<file, now, fixed, local, history>>

\* The id and description of a candidate.
Key(d) == [id |-> d.id, description |-> d.description]

\* main lines 155-158 and 167-168: the result d of check_disruptions is
\* tested; without a candidate the pass ends.
Scanned(p, d) ==
    /\ disruption' = [disruption EXCEPT ![p] = d]
    /\ IF d = None THEN Report(p, "nomatch") ELSE Goto(p, "decide")
    /\ stable' = IF d # None /\ stable = <<Key(d[1])>> THEN stable ELSE None

\* Mutant: the ledger is loaded before the result of the scan is tested, so a
\* load error ends a pass that found nothing.
Fetch_LoadsLedgerFirst(p) ==
    /\ pc[p] = "fetch"
    /\ \E d \in FeedOutcomes :
          IF load_last_notification(file).raised
          THEN /\ disruption' = [disruption EXCEPT ![p] = d]
               /\ Raise(p, "load")
          ELSE Scanned(p, d)
    /\ UNCHANGED <<file, now, fixed, last_notification, current_time, decision,
                   notification_data, offset, fileAtStart, history>>

\* main lines 154-158 and 167-168: the feed is fetched and scanned.
Fetch(p) ==
    /\ pc[p] = "fetch"
    /\ \E d \in FeedOutcomes : Scanned(p, d)
    /\ UNCHANGED <<file, now, fixed, last_notification, current_time, decision,
                   notification_data, offset, fileAtStart, history>>

\* main lines 154-158 and 167-168, for the feed whose entries are fixed.
Scan(p) ==
    /\ pc[p] = "fetch"
    /\ Scanned(p, check_disruptions(entries, area))
    /\ UNCHANGED <<file, now, fixed, last_notification, current_time, decision,
                   notification_data, offset, fileAtStart, history>>

\* main line 154: fetch_rss_feed raises (requests.get, raise_for_status).
FetchFail(p) ==
    /\ pc[p] = "fetch"
    /\ Raise(p, "fetch")
    /\ UNCHANGED <<file, now, fixed, local, fileAtStart, history>>

\* main lines 159 and 165-166: should_send_notification loads the ledger
\* and decides; an exception of the load ends the pass.
Decide(p) ==
    /\ pc[p] = "decide"
    /\ LET loaded == load_last_notification(file)
           send == should_send_notification(disruption[p][1], loaded.value, now,
                                            min_interval)
           changed == Key(disruption[p][1])
                         # [id |-> Get(loaded.value, "disruption_id", NoneId),
                            description |-> Get(loaded.value, "description", NoneText)]
       IN  IF loaded.raised
           THEN /\ Raise(p, "load")
                /\ UNCHANGED <<last_notification, current_time, decision, wasSuppressed>>
           ELSE /\ last_notification' = [last_notification EXCEPT ![p] = loaded.value]
                /\ current_time' = [current_time EXCEPT ![p] = now]
                /\ decision' = [decision EXCEPT ![p] = IF send THEN "Send" ELSE "Suppress"]
                /\ IF send THEN Goto(p, "send") ELSE Report(p, "skipped")
                /\ wasSuppressed' =
                      (wasSuppressed \/ (~send /\ DOMAIN loaded.value # {} /\ changed))
                /\ UNCHANGED stable
    /\ UNCHANGED <<file, now, fixed, disruption, notification_data, offset, fileAtStart,
                   lastSent, saveLost, lastFailed>>

\* main lines 160-162: send_pushover_notification returns.
Send(p) ==
    /\ pc[p] = "send"
    /\ Goto(p, "save")
    /\ lastSent' = <<now>>
    /\ lastFailed' = None
    /\ UNCHANGED <<file, now, fixed, local, fileAtStart, saveLost, stable, wasSuppressed>>

\* Mutant: the ledger file is opened for writing before the notification is
\* sent, so a failed send leaves it truncated.
SendFail_TruncatesLedger(p) ==
    /\ pc[p] = "send"
    /\ Raise(p, "transport")
    /\ lastFailed' = <<Key(disruption[p][1])>>
    /\ file' = TruncatedFile
    /\ UNCHANGED <<now, fixed, local, fileAtStart, lastSent, saveLost, wasSuppressed>>

\* Mutant: the ledger is saved although the send failed.
SendFail_SavesLedger(p) ==
    /\ pc[p] = "send"
    /\ Raise(p, "transport")
    /\ lastFailed' = <<Key(disruption[p][1])>>
    /\ file' = CompleteFile([timestamp |-> now,
                             disruption_id |-> disruption[p][1].id,
                             description |-> disruption[p][1].description])
    /\ UNCHANGED <<now, fixed, local, fileAtStart, lastSent, saveLost, wasSuppressed>>

\* main line 162: send_pushover_notification raises (requests.post,
\* raise_for_status); save_last_notification is not reached.
SendFail(p) ==
    /\ pc[p] = "send"
    /\ Raise(p, "transport")
    /\ lastFailed' = <<Key(disruption[p][1])>>
    /\ UNCHANGED <<file, now, fixed, local, fileAtStart, lastSent, saveLost, wasSuppressed>>

\* Mutant: the new entry is merged into the loaded one and the description
\* of an existing entry is kept.
SaveOpen_KeepsOldDescription(p) ==
    /\ pc[p] = "save"
    /\ notification_data' =
          [notification_data EXCEPT ![p] =
              [timestamp |-> now,
               disruption_id |-> Get(disruption[p][1], "id", ""),
               description |-> Get(last_notification[p], "description",
                                   Get(disruption[p][1], "description", <<>>))]]
    /\ file' = TruncatedFile
    /\ offset' = [offset EXCEPT ![p] = 0]
    /\ Goto(p, "write")
    /\ UNCHANGED <<now, fixed, disruption, last_notification, current_time,
                   decision, fileAtStart, history, stable>>

\* Mutant: the id is read under the ledger's key, which the candidate does
\* not have, so the saved disruption_id is always ''.
SaveOpen_WrongIdKey(p) ==
    /\ pc[p] = "save"
    /\ notification_data' =
          [notification_data EXCEPT ![p] =
              [timestamp |-> now,
               disruption_id |-> Get(disruption[p][1], "disruption_id", ""),
               description |-> Get(disruption[p][1], "description", <<>>)]]
    /\ file' = TruncatedFile
    /\ offset' = [offset EXCEPT ![p] = 0]
    /\ Goto(p, "write")
    /\ UNCHANGED <<now, fixed, disruption, last_notification, current_time,
                   decision, fileAtStart, history, stable>>

\* save_last_notification lines 99-105: the dict is built and open(..., 'w')
\* truncates the file; the handle stands at its start.
SaveOpen(p) ==
    /\ pc[p] = "save"
    /\ notification_data' =
          [notification_data EXCEPT ![p] =
              [timestamp |-> now,
               disruption_id |-> Get(disruption[p][1], "id", ""),
               description |-> Get(disruption[p][1], "description", <<>>)]]
    /\ file' = TruncatedFile
    /\ offset' = [offset EXCEPT ![p] = 0]
    /\ Goto(p, "write")
    /\ UNCHANGED <<now, fixed, disruption, last_notification, current_time,
                   decision, fileAtStart, history, stable>>

\* save_last_notification line 105: open raises (permissions, read-only
\* directory); the file is as it was.
SaveOpenFail(p) ==
    /\ pc[p] = "save"
    /\ Raise(p, "save")
    /\ saveLost' = TRUE
    /\ UNCHANGED <<file, now, fixed, local, fileAtStart, lastSent, lastFailed, wasSuppressed>>

\* save_last_notification line 106 and main line 164: json.dump writes the
\* next key at the handle's position; after the last one the text is closed
\* and the pass is notified.
SaveWrite(p) ==
    /\ pc[p] = "write"
    /\ LET n == offset[p] + 1
           k == FieldOrder[n]
           last == n = Len(FieldOrder)
       IN  /\ file' = [file EXCEPT
                          !.text = WriteAt(@, n, [k |-> k, v |-> notification_data[p][k]]),
                          !.closed = last \/ @]
           /\ offset' = [offset EXCEPT ![p] = n]
           /\ IF last
              THEN Report(p, "notified") /\ stable' = <<Key(disruption[p][1])>>
              ELSE Goto(p, "write") /\ UNCHANGED stable
    /\ UNCHANGED <<now, fixed, disruption, last_notification, current_time, decision,
                   notification_data, fileAtStart, history>>

\* Mutant: the error of the write is swallowed and main prints
\* "Notification sent!".
SaveInterrupt_ReportsNotified(p) ==
    /\ pc[p] = "write"
    /\ Report(p, "notified")
    /\ saveLost' = TRUE
    /\ UNCHANGED <<file, now, fixed, local, fileAtStart, lastSent, lastFailed, stable,
                   wasSuppressed>>

\* save_last_notification line 106: the write raises (disk full, I/O error)
\* before the text is complete; what was written stays in the file.
SaveInterrupt(p) ==
    /\ pc[p] = "write"
    /\ Raise(p, "save")
    /\ saveLost' = TRUE
    /\ UNCHANGED <<file, now, fixed, local, fileAtStart, lastSent, lastFailed, wasSuppressed>>

\* main returns; the process's locals are gone.
Finish(p) ==
    /\ pc[p] = "done"
    /\ pc' = [pc EXCEPT ![p] = "idle"]
    /\ disruption' = [disruption EXCEPT ![p] = None]
    /\ last_notification' = [last_notification EXCEPT ![p] = EmptyDict]
    /\ current_time' = [current_time EXCEPT ![p] = 0]
    /\ decision' = [decision EXCEPT ![p] = "-"]
    /\ notification_data' = [notification_data EXCEPT ![p] = EmptyDict]
    /\ offset' = [offset EXCEPT ![p] = 0]
    /\ outcome' = [outcome EXCEPT ![p] = "-"]
    /\ failure' = [failure EXCEPT ![p] = "-"]
    /\ fileAtStart' = [fileAtStart EXCEPT ![p] = AbsentFile]
    /\ UNCHANGED <<file, now, fixed, history, stable>>

\* Passes are serialized: one starts only when no other is running.
NoPassRunning == \A q \in Procs : pc[q] = "idle"

Next ==
    \/ Tick
    \/ \E p \in Procs : NoPassRunning /\ Start(p)
    \/ \E p \in Procs : NoPassRunning /\ ConfigFail(p)
    \/ \E p \in Procs : Fetch(p)
    \/ \E p \in Procs : FetchFail(p)
    \/ \E p \in Procs : Decide(p)
    \/ \E p \in Procs : Send(p)
    \/ \E p \in Procs : SendFail(p)
    \/ \E p \in Procs : SaveOpen(p)
    \/ \E p \in Procs : SaveOpenFail(p)
    \/ \E p \in Procs : SaveWrite(p)
    \/ \E p \in Procs : SaveInterrupt(p)
    \/ \E p \in Procs : Finish(p)

Spec == Init /\ [][Next]_vars

\* The feed does not change while passes overlap: a pass finds what a pass
\* that is already past its scan found.
SameFeed(p) ==
    \A q \in Procs \ {p} : pc[q] \notin {"idle", "fetch"} => disruption'[p] = disruption[q]

\* Passes may overlap: an external scheduler starts a pass while another
\* one is running against the same ledger file.  Each process runs one pass
\* and no step fails.
NextOverlap ==
    \/ Tick
    \/ \E p \in Procs : Start(p)
    \/ \E p \in Procs : Fetch(p) /\ SameFeed(p)
    \/ \E p \in Procs : Decide(p)
    \/ \E p \in Procs : Send(p)
    \/ \E p \in Procs : SaveOpen(p)
    \/ \E p \in Procs : SaveWrite(p)

SpecOverlap == Init /\ [][NextOverlap]_vars

\* The extractor on every feed: a pass starts and scans the feed whose
\* entries were fixed at the start.
InitExtract == InitPass /\ entries \in Feeds

NextExtract ==
    \/ \E p \in Procs : NoPassRunning /\ Start(p)
    \/ \E p \in Procs : Scan(p)

SpecExtract == InitExtract /\ [][NextExtract]_vars

\* Every result of a scan of a feed of Feeds is one of FeedOutcomes.
FeedOutcomesCover ==
    \A p \in Procs : pc[p] \in {"decide", "done"} => disruption[p] \in FeedOutcomes

\* The candidate of the feed whose entries are fixed.
Candidate == check_disruptions(entries, area)[1]

\* The ledger file after a notification for key was saved at time t.
SavedLedger(key, t) ==
    CompleteFile([timestamp |-> t, disruption_id |-> key.id,
                  description |-> key.description])

\* Passes that keep being run against a feed that has changed: the ledger
\* holds the entry of an earlier notification, saved when the clock started,
\* the first match of the feed has another id or another description, and
\* the cooldown is one the clock outlasts.
InitLive ==
    /\ InitLocals
    /\ min_interval * SecondsPerMinute <= MaxTicks * TickSeconds
    /\ entries \in {feed \in SeqsUpTo(Entries, 1) : check_disruptions(feed, area) # None}
    /\ \E d \in FeedOutcomes \ {None} :
          /\ Key(d[1]) # Key(Candidate)
          /\ file = SavedLedger(Key(d[1]), now)

\* The process the scheduler runs the script in.
Runner == CHOOSE p \in Procs : TRUE

NextLive ==
    \/ Tick
    \/ NoPassRunning /\ Start(Runner)
    \/ Scan(Runner)
    \/ FetchFail(Runner)
    \/ Decide(Runner)
    \/ Send(Runner)
    \/ SendFail(Runner)
    \/ SaveOpen(Runner)
    \/ SaveOpenFail(Runner)
    \/ SaveWrite(Runner)
    \/ SaveInterrupt(Runner)
    \/ Finish(Runner)

\* Time advances, a pass is started whenever none is running and a started
\* pass runs to its end (every call returns or raises); the fetch and the
\* transport succeed again and again.  Nothing is assumed of the save.
FairLive ==
    /\ WF_vars(Tick)
    /\ WF_vars(NoPassRunning /\ Start(Runner))
    /\ SF_vars(Scan(Runner))
    /\ WF_vars(Decide(Runner))
    /\ SF_vars(Send(Runner))
    /\ WF_vars(SaveOpen(Runner) \/ SaveOpenFail(Runner))
    /\ WF_vars(SaveWrite(Runner) \/ SaveInterrupt(Runner))
    /\ WF_vars(Finish(Runner))

SpecLive == InitLive /\ [][NextLive]_vars /\ FairLive

\* ----------------------------------------------------------------- claims

\* The pass of p has a decision of should_send_notification.
Decided(p) == decision[p] # "-"

\* The ledger held an entry when p decided.
HasLedger(p) == DOMAIN last_notification[p] # {}

\* now - ledger.timestamp as p's decision saw it.
Elapsed(p) == current_time[p] - last_notification[p].timestamp

Cooldown == min_interval * SecondsPerMinute

\* The notification of p's pass was delivered.
Delivered(p) ==
    pc[p] \in {"save", "write"} \/ failure[p] = "save" \/ outcome[p] = "notified"

SameId(p) == disruption[p][1].id = last_notification[p].disruption_id

SameDescription(p) == disruption[p][1].description = last_notification[p].description

\* C1 - Cooldown dominance: whenever a ledger entry exists and
\* now - ledger.timestamp < min_interval, the decision is Suppress for every
\* candidate, whatever its id and description.
C1_CooldownDominance ==
    \A p \in Procs :
        (Decided(p) /\ HasLedger(p) /\ Elapsed(p) < Cooldown) => decision[p] = "Suppress"

\* Inside the cooldown a candidate with another id and another description
\* was suppressed.
C1_Witness ==
    \E p \in Procs :
        /\ Decided(p) /\ HasLedger(p) /\ Elapsed(p) < Cooldown
        /\ ~SameId(p) /\ ~SameDescription(p)
        /\ decision[p] = "Suppress"

\* C2 - Cold start: when the ledger file is absent the decision is Send, for
\* every candidate, every min_interval and every value of now.
C2_ColdStart ==
    \A p \in Procs :
        (Decided(p) /\ ~fileAtStart[p].exists) => decision[p] = "Send"

\* A pass decided Send on an absent file, later than time 0 and with a
\* positive min_interval.
C2_Witness ==
    \E p \in Procs :
        /\ Decided(p) /\ ~fileAtStart[p].exists /\ ~HasLedger(p)
        /\ current_time[p] > 0 /\ min_interval > 0
        /\ decision[p] = "Send"

\* C3 - In serialized passes in which every save after a delivery completes,
\* a notification is delivered only min_interval or more after the previous
\* delivered one (the clock never goes back, so this bounds every pair).
C3_DeliveriesApart ==
    [][\A p \in Procs :
          (pc[p] = "send" /\ pc'[p] = "save" /\ lastSent # None /\ ~saveLost)
              => lastSent'[1] - lastSent[1] >= Cooldown]_vars

\* A second notification was delivered, for a candidate that differs from
\* the ledger entry, under a positive min_interval and with no save lost.
C3_Witness ==
    \E p \in Procs :
        /\ pc[p] = "save" /\ HasLedger(p) /\ ~saveLost /\ min_interval > 0
        /\ lastSent = <<now>> /\ now - last_notification[p].timestamp >= Cooldown
        /\ ~SameId(p)

\* C4 - Ledger atomicity: after a save that failed or was interrupted, the
\* file loads as the complete prior entry or as the complete new entry.
C4_LedgerAtomicity ==
    \A p \in Procs :
        failure[p] = "save" =>
            \/ file = fileAtStart[p]
            \/ /\ ~load_last_notification(file).raised
               /\ file = CompleteFile(notification_data[p])

\* C5 - The ledger is modified in a pass only if the pass decided Send and
\* the transport succeeded: a pass that ends in fetch failure, no match,
\* Suppress or transport failure leaves the file as it was at its start.
C5_LedgerFrame ==
    \A p \in Procs :
        /\ (pc[p] # "idle" /\ file # fileAtStart[p])
              => (decision[p] = "Send" /\ Delivered(p))
        /\ (pc[p] = "done" /\ (outcome[p] \in {"nomatch", "skipped"}
                                \/ failure[p] \in {"fetch", "transport"}))
              => file = fileAtStart[p]

\* A pass with an existing ledger ended in transport failure.
C5_Witness ==
    \E p \in Procs :
        /\ pc[p] = "done" /\ failure[p] = "transport"
        /\ fileAtStart[p].exists /\ file = fileAtStart[p]

\* C6 - Retry after transport failure: once a delivery failed, a later pass
\* that finds the same id and description (no delivery having succeeded in
\* between) decides Send, never Suppress.
C6_RetryAfterTransportFailure ==
    \A p \in Procs :
        (/\ Decided(p)
         /\ lastFailed # None
         /\ lastFailed[1].id = disruption[p][1].id
         /\ lastFailed[1].description = disruption[p][1].description)
            => decision[p] = "Send"

\* A pass after the failed one found the same candidate, with a ledger
\* entry present and a positive min_interval, and decided Send.
C6_Witness ==
    \E p \in Procs :
        /\ pc[p] = "send" /\ HasLedger(p) /\ min_interval > 0
        /\ lastFailed # None
        /\ lastFailed[1].id = disruption[p][1].id
        /\ lastFailed[1].description = disruption[p][1].description

\* The file cannot be deserialized: it exists and holds no complete text.
Corrupt(f) == f.exists /\ ~f.closed

\* C7 - A corrupt ledger is never treated as cold start: a pass that has a
\* candidate and whose load of the ledger fails ends in error, sends nothing
\* and does not write the ledger.
C7_CorruptLedgerIsAnError ==
    \A p \in Procs :
        (/\ pc[p] \notin {"idle", "fetch", "decide"}
         /\ disruption[p] # None
         /\ Corrupt(fileAtStart[p]))
            => /\ pc[p] = "done" /\ outcome[p] = "error"
               /\ ~Decided(p) /\ ~Delivered(p)
               /\ file = fileAtStart[p]

\* A pass with a candidate ended in the error of the load.
C7_Witness ==
    \E p \in Procs :
        /\ pc[p] = "done" /\ failure[p] = "load" /\ disruption[p] # None
        /\ Corrupt(file)

\* C8 - New id after cooldown: with a ledger entry, elapsed >= min_interval
\* and an id that differs from the ledger's, the decision is Send whatever
\* the descriptions.
C8_NewIdAfterCooldown ==
    \A p \in Procs :
        (Decided(p) /\ HasLedger(p) /\ Elapsed(p) >= Cooldown /\ ~SameId(p))
            => decision[p] = "Send"

\* After a positive cooldown a candidate with a new id and the ledger's
\* description was sent.
C8_Witness ==
    \E p \in Procs :
        /\ Decided(p) /\ HasLedger(p) /\ Elapsed(p) >= Cooldown /\ min_interval > 0
        /\ ~SameId(p) /\ SameDescription(p)
        /\ decision[p] = "Send"

\* C9 - Content change after cooldown: with a ledger entry, elapsed >=
\* min_interval, the same id (two empty ids are the same) and another
\* description, the decision is Send.
C9_ContentChangeAfterCooldown ==
    \A p \in Procs :
        (Decided(p) /\ HasLedger(p) /\ Elapsed(p) >= Cooldown /\ SameId(p)
            /\ ~SameDescription(p))
            => decision[p] = "Send"

\* After a positive cooldown a candidate without id met a ledger entry
\* without id and another description, and was sent.
C9_Witness ==
    \E p \in Procs :
        /\ Decided(p) /\ HasLedger(p) /\ Elapsed(p) >= Cooldown /\ min_interval > 0
        /\ disruption[p][1].id = "" /\ last_notification[p].disruption_id = ""
        /\ ~SameDescription(p)
        /\ decision[p] = "Send"

\* C10 - Stable repeat: with a ledger entry, elapsed >= min_interval and
\* both id and description equal to the ledger's, the decision is Suppress.
C10_StableRepeat ==
    \A p \in Procs :
        (Decided(p) /\ HasLedger(p) /\ Elapsed(p) >= Cooldown /\ SameId(p)
            /\ SameDescription(p))
            => decision[p] = "Suppress"

\* After a positive cooldown the unchanged candidate was suppressed.
C10_Witness ==
    \E p \in Procs :
        /\ Decided(p) /\ HasLedger(p) /\ Elapsed(p) >= Cooldown /\ min_interval > 0
        /\ SameId(p) /\ SameDescription(p)
        /\ decision[p] = "Suppress"

\* The ledger file holds a complete entry with the id and description of d.
Holds(f, d) ==
    LET loaded == load_last_notification(f)
    IN  /\ f.exists /\ ~loaded.raised
        /\ DOMAIN loaded.value = {"timestamp", "disruption_id", "description"}
        /\ loaded.value.disruption_id = d.id
        /\ loaded.value.description = d.description

\* C11 - After every pass that ends notified the ledger holds one whole new
\* entry: the candidate's id and description and a timestamp not earlier
\* than the time of the decision; nothing of the previous entry is left.
C11_NotifiedLedgerIsNew ==
    \A p \in Procs :
        (pc[p] = "done" /\ outcome[p] = "notified") =>
            /\ Holds(file, disruption[p][1])
            /\ Len(file.text) = Len(FieldOrder)
            /\ load_last_notification(file).value.timestamp >= current_time[p]

\* A notified pass replaced an entry with another id and description, and
\* the clock moved between its decision and its save.
C11_Witness ==
    \E p \in Procs :
        /\ pc[p] = "done" /\ outcome[p] = "notified"
        /\ HasLedger(p) /\ ~SameId(p) /\ ~SameDescription(p)
        /\ Holds(file, disruption[p][1])
        /\ load_last_notification(file).value.timestamp > current_time[p]

\* C16 - Every pass that ends has one of the outcomes notified, skipped,
\* nomatch, error; notified only after a delivery and a completed save; a
\* pass whose notification was delivered but whose save failed ends in error.
C16_Outcomes ==
    \A p \in Procs :
        pc[p] = "done" =>
            /\ outcome[p] \in {"notified", "skipped", "nomatch", "error"}
            /\ outcome[p] = "notified" =>
                  /\ decision[p] = "Send" /\ lastSent # None
                  /\ file.closed /\ file = CompleteFile(notification_data[p])
            /\ outcome[p] = "error" <=> failure[p] # "-"
            /\ outcome[p] = "skipped" <=> decision[p] = "Suppress"
            /\ outcome[p] = "nomatch" => disruption[p] = None

\* A pass delivered its notification, its save was interrupted, and it ended
\* in error with a partial file.
C16_Witness ==
    \E p \in Procs :
        /\ pc[p] = "done" /\ failure[p] = "save" /\ outcome[p] = "error"
        /\ decision[p] = "Send" /\ lastSent # None
        /\ Corrupt(file)

\* C20 - The ledger is read only when a candidate exists: a pass whose feed
\* has no matching entry ends in nomatch without a load or a decision, also
\* when the ledger file is corrupt.
C20_NoMatchNeverLoads ==
    \A p \in Procs :
        (pc[p] = "done" /\ disruption[p] = None /\ failure[p] \notin {"config", "fetch"})
            => /\ outcome[p] = "nomatch" /\ failure[p] = "-"
               /\ ~Decided(p) /\ ~HasLedger(p)

\* A pass found no match while the ledger file was corrupt and ended in
\* nomatch.
C20_Witness ==
    \E p \in Procs :
        /\ pc[p] = "done" /\ outcome[p] = "nomatch"
        /\ Corrupt(fileAtStart[p]) /\ Corrupt(file)

\* C18 - Stable feed is notified once: in serialized passes without
\* failures, once a pass was notified and every pass since found the same id
\* and description, no later pass decides Send, whatever the clock shows.
C18_StableFeedNotifiedOnce ==
    \A p \in Procs :
        (/\ Decided(p)
         /\ outcome[p] # "notified"
         /\ stable = <<Key(disruption[p][1])>>)
            => decision[p] = "Suppress"

\* A later pass found the notified candidate again, after the cooldown had
\* passed, and was suppressed.
C18_Witness ==
    \E p \in Procs :
        /\ Decided(p) /\ outcome[p] = "skipped"
        /\ stable = <<Key(disruption[p][1])>>
        /\ disruption[p][1].id # ""
        /\ min_interval > 0 /\ Elapsed(p) >= Cooldown

\* -------------------------------------------------- claims on the extractor

\* The pass of p has the result of check_disruptions.
ScanDone(p) == pc[p] \in {"decide", "done"}

\* Two characters are the same letter, whatever their case.
SameLetter(c, d) == c = d \/ {c, d} = {"a", "A"} \/ {c, d} = {"b", "B"}

\* The area stands in text, case-insensitively.
SubjectIn(text) ==
    \E i \in 1..Len(text) :
        /\ i + Len(area) - 1 <= Len(text)
        /\ \A k \in 1..Len(area) : SameLetter(text[i + k - 1], area[k])

\* An attribute's value, or the default when the entry lacks it.
ValueOr(attr, default) == IF attr = {} THEN default ELSE CHOOSE v \in attr : TRUE

\* The text of an entry: summary, else description, else the string form.
TestedText(e) ==
    IF e.summary # {} THEN ValueOr(e.summary, <<>>)
    ELSE IF e.description # {} THEN ValueOr(e.description, <<>>)
    ELSE e.str

\* The entry is a well-formed one whose text contains the area.
IsHit(e) == TestedText(e) # NonString /\ SubjectIn(TestedText(e))

\* The Match built from an entry.
MatchOf(e) ==
    [id |-> ValueOr(e.id, ""), title |-> ValueOr(e.title, ""), description |-> TestedText(e)]

Hits == {i \in 1..Len(entries) : IsHit(entries[i])}

FirstHit == CHOOSE i \in Hits : \A j \in Hits : i <= j

\* C13 - Extractor first match: check_disruptions returns None exactly when
\* no entry's text contains the area case-insensitively, and otherwise the
\* Match of the first such entry in feed order, never of a later one.
C13_FirstMatch ==
    \A p \in Procs :
        ScanDone(p) =>
            IF Hits = {} THEN disruption[p] = None
            ELSE disruption[p] = <<MatchOf(entries[FirstHit])>>

\* The feed was [no match, match, another match] and the Match of the second
\* entry was returned.
C13_Witness ==
    \E p \in Procs :
        /\ ScanDone(p)
        /\ Len(entries) = 3 /\ Hits = {2, 3}
        /\ MatchOf(entries[2]) # MatchOf(entries[3])
        /\ disruption[p] = <<MatchOf(entries[2])>>

\* C14 - Malformed entries do not abort the scan: a well-formed matching
\* entry that follows an entry whose processing raises is still returned
\* when nothing before it matches, and the scan itself raises nothing.
C14_MalformedEntrySkipped ==
    \A p \in Procs :
        ScanDone(p) =>
            /\ failure[p] = "-"
            /\ \A i \in 1..Len(entries) :
                  (/\ IsHit(entries[i])
                   /\ \A j \in 1..(i - 1) : ~IsHit(entries[j])
                   /\ \E j \in 1..(i - 1) : TestedText(entries[j]) = NonString)
                      => disruption[p] = <<MatchOf(entries[i])>>

\* The first entry was malformed, the second one matched and was returned.
C14_Witness ==
    \E p \in Procs :
        /\ ScanDone(p)
        /\ Len(entries) >= 2
        /\ TestedText(entries[1]) = NonString /\ IsHit(entries[2])
        /\ disruption[p] = <<MatchOf(entries[2])>>

\* C15 - Body precedence: the text tested is the summary if the entry has
\* one, else the description, else the string form; an entry whose summary
\* lacks the area is no match even when its description contains it.
C15_BodyPrecedence ==
    \A p \in Procs :
        ScanDone(p) =>
            /\ disruption[p] # None =>
                  \E i \in 1..Len(entries) :
                      /\ disruption[p][1].description = TestedText(entries[i])
                      /\ SubjectIn(TestedText(entries[i]))
            /\ (\A i \in 1..Len(entries) :
                    /\ entries[i].summary # {}
                    /\ ~SubjectIn(ValueOr(entries[i].summary, <<>>)))
                  => disruption[p] = None

\* The only entry had a summary without the area and a description with it,
\* and nothing was returned.
C15_Witness ==
    \E p \in Procs :
        /\ ScanDone(p)
        /\ Len(entries) = 1
        /\ entries[1].summary # {} /\ ~SubjectIn(ValueOr(entries[1].summary, <<>>))
        /\ entries[1].summary # {NonString}
        /\ entries[1].description # {} /\ SubjectIn(ValueOr(entries[1].description, <<>>))
        /\ disruption[p] = None

\* ------------------------------------------------ claims on overlapping passes

\* Both passes found the same candidate and have a decision.
BothDecided(p, q) ==
    /\ p # q /\ Decided(p) /\ Decided(q)
    /\ disruption[p] = disruption[q]

\* C12 - Lost-update race: when two passes overlap on the same ledger and
\* find the same candidate, passes that both loaded the ledger before either
\* saved both decide Send; two notifications for the candidate are delivered
\* in exactly that case, a pass that loaded the other's entry is suppressed.
C12_LostUpdateRace ==
    \A p, q \in Procs :
        BothDecided(p, q) =>
            /\ (~HasLedger(p) /\ ~HasLedger(q))
                  => (decision[p] = "Send" /\ decision[q] = "Send")
            /\ (Delivered(p) /\ Delivered(q)) => (~HasLedger(p) /\ ~HasLedger(q))

\* Both passes loaded the absent ledger at different times, both decided
\* Send and both notifications are delivered, less than a positive
\* min_interval after the earlier decision, while the file is still absent.
C12_Witness ==
    \E p, q \in Procs :
        /\ BothDecided(p, q)
        /\ pc[p] = "save" /\ pc[q] = "save"
        /\ ~HasLedger(p) /\ ~HasLedger(q)
        /\ file = AbsentFile
        /\ current_time[p] < current_time[q]
        /\ min_interval > 0 /\ now - current_time[p] < Cooldown

\* ------------------------------------------------ claims on repeated passes

\* A pass ended skipped: the cooldown suppressed a candidate whose id or
\* description differs from the ledger entry.
SuppressedChange ==
    \E p \in Procs :
        /\ pc[p] = "done" /\ outcome[p] = "skipped"
        /\ HasLedger(p) /\ Elapsed(p) < Cooldown
        /\ ~(SameId(p) /\ SameDescription(p))

\* The notification for the candidate has just been delivered.
CandidateSent == \E p \in Procs : pc[p] = "save" /\ disruption[p] = <<Candidate>>

\* The ledger read succeeds again and again.
LedgerReadable == []<>(~load_last_notification(file).raised)

\* A save that is attempted again and again completes again and again.
SaveSucceeds ==
    []<>(\E p \in Procs : pc[p] = "save")
        => []<>(\E p \in Procs : pc[p] = "done" /\ outcome[p] = "notified")

====
